---- MODULE Spec2Model ----
(***************************************************************************)
(* Model of ButtplugWebsocketClient (src/src/client/WebsocketClient.ts):   *)
(* the connection transport of the Buttplug client.  One Transport         *)
(* instance, the WebSocket channels it creates, the handlers it attaches   *)
(* to them and the hooks it calls (InitializeConnection,                   *)
(* ShutdownConnection, ParseMessages, emit("close")); and of               *)
(* ButtplugLogger (src/src/core/Logging.ts), the leveled log sink.         *)
(***************************************************************************)
EXTENDS Integers, Sequences, FiniteSets, TLC

\* ------------------------------------------------------------------ bounds
MaxChannels == 2      \* Connect calls (each creates one WebSocket)
MaxFrames == 2        \* inbound frames delivered over all channels
MaxSends == 2         \* Send calls
MaxDisconnects == 2   \* Disconnect invocations counted per session
MaxLogCalls == 1      \* log calls (Fatal .. Trace, LogAndError)

Channels == 1..MaxChannels
NoChannel == 0        \* this._ws === undefined

\* Messages of the catalog and their wire text (sequences of tokens).
Messages == {"m1", "m2"}
MsgToJSON(m) == <<"{", m, "}">>

RECURSIVE EncodeMsgs(_)
EncodeMsgs(ms) ==
  IF ms = <<>> THEN <<>> ELSE MsgToJSON(Head(ms)) \o EncodeMsgs(Tail(ms))

\* A well-formed frame is "[" + envelopes + "]".
EncodeFrame(ms) == <<"[">> \o EncodeMsgs(ms) \o <<"]">>

\* Frame texts the remote end can deliver: well-formed ones and a truncated one.
FrameTexts ==
  { EncodeFrame(<<"m1", "m2">>), EncodeFrame(<<"m2", "m1">>),
    <<"[", "{", "m1", "}">> }
FrameKinds == {"string", "Blob"}

\* FromJSON: decode the text of a frame into its messages, or fail.
RECURSIVE DecodeMsgs(_)
DecodeMsgs(toks) ==
  IF toks = <<>> THEN [ok |-> TRUE, msgs |-> <<>>]
  ELSE IF Len(toks) >= 3 /\ toks[1] = "{" /\ toks[2] \in Messages /\ toks[3] = "}"
       THEN LET rest == DecodeMsgs(SubSeq(toks, 4, Len(toks)))
            IN  [ok |-> rest.ok, msgs |-> <<toks[2]>> \o rest.msgs]
       ELSE [ok |-> FALSE, msgs |-> <<>>]

FromJSON(text) ==
  IF Len(text) >= 2 /\ text[1] = "[" /\ text[Len(text)] = "]"
  THEN DecodeMsgs(SubSeq(text, 2, Len(text) - 1))
  ELSE [ok |-> FALSE, msgs |-> <<>>]

\* enum LogLevel, Logging.ts lines 8-16.
LogLevel ==
  [Off |-> 0, Fatal |-> 1, Error |-> 2, Warn |-> 3, Info |-> 4, Debug |-> 5,
   Trace |-> 6]
LogLevels == LogLevel.Off..LogLevel.Trace

\* LogLevel[level]: the name of an enum member.
LogLevelName(l) ==
  CASE l = 0 -> "Off" [] l = 1 -> "Fatal" [] l = 2 -> "Error"
    [] l = 3 -> "Warn" [] l = 4 -> "Info" [] l = 5 -> "Debug"
    [] l = 6 -> "Trace"

\* Inputs of the log calls.
Texts == {"t1", "t2"}
ErrorClasses == {"ERROR_UNKNOWN", "ERROR_MSG"}
MsgIds == {0, 1}
Timestamps == {"h:m:s"}
NoValue == [type |-> "none"]

\* ------------------------------------------------------------------- state
VARIABLES
  ws,              \* this._ws: the held channel, NoChannel when undefined
  chState,         \* per channel: readyState of the WebSocket ("none" = not created)
  closeListeners,  \* per channel: the "close" listeners attached by the Transport
  messageListener, \* per channel: whether the "message" listener is attached
  promise,         \* per channel: the promise p returned by its Connect call
  rejReason,       \* per channel: the value p was rejected with
  hs,              \* per channel: the InitializeConnection call of its open handler
  hsCalls,         \* per channel: number of InitializeConnection invocations
  disconnectCalls, \* Disconnect invocations (caller or close listener) since the
                   \* last open event, counted up to MaxDisconnects
  shutdownCalls,   \* ShutdownConnection invocations since the last open event
  closeEmits,      \* emit("close") notifications since the last open event
  teardown,        \* the steps of the teardown Disconnect ran since the last open
                   \* event, each with Connected as it was when the step began
  sent,            \* history of ws.send writes: [chan, frame]
  sendThrows,      \* number of Send calls that threw "ButtplugClient not connected"
  delivered,       \* history of message events: [chan, kind, text]
  readers,         \* FileReaders whose readAsText has not fired "load" yet
  dispatched,      \* history of ParseMessages invocations
  decodeThrows,    \* FromJSON failures thrown out of a handler
  logToConsole,           \* ButtplugLogger.logToConsole
  maximumConsoleLogLevel, \* ButtplugLogger.maximumConsoleLogLevel
  maximumLogLevel,        \* ButtplugLogger.maximumLogLevel
  consoleLines,    \* history of console.log lines
  logEvents,       \* history of emit("log", msg) events
  logCalls,        \* history of log calls: [level, text]
  returned,        \* value returned by the last LogAndError call
  errorArgs        \* arguments of the last LogAndError call

vars == <<ws, chState, closeListeners, messageListener, promise, rejReason, hs,
          hsCalls, disconnectCalls, shutdownCalls, closeEmits, teardown, sent,
          sendThrows, delivered, readers, dispatched, decodeThrows,
          logToConsole, maximumConsoleLogLevel, maximumLogLevel, consoleLines,
          logEvents, logCalls, returned, errorArgs>>

chanVars == <<chState, closeListeners, messageListener>>
connectVars == <<promise, rejReason, hs, hsCalls>>
sessionVars == <<disconnectCalls, shutdownCalls, closeEmits, teardown>>
sendVars == <<sent, sendThrows>>
inboundVars == <<delivered, readers, dispatched, decodeThrows>>
transportVars == <<ws, chanVars, connectVars, sessionVars, sendVars, inboundVars>>
configVars == <<logToConsole, maximumConsoleLogLevel, maximumLogLevel>>
outputVars == <<consoleLines, logEvents, logCalls, returned, errorArgs>>
logVars == <<configVars, outputVars>>

\* get Connected(): this._ws !== undefined
Connected == ws # NoChannel

Init ==
  /\ ws = NoChannel
  /\ chState = [c \in Channels |-> "none"]
  /\ closeListeners = [c \in Channels |-> {}]
  /\ messageListener = [c \in Channels |-> FALSE]
  /\ promise = [c \in Channels |-> "none"]
  /\ rejReason = [c \in Channels |-> "none"]
  /\ hs = [c \in Channels |-> "notcalled"]
  /\ hsCalls = [c \in Channels |-> 0]
  /\ disconnectCalls = 0
  /\ shutdownCalls = 0
  /\ closeEmits = 0
  /\ teardown = <<>>
  /\ sent = <<>>
  /\ sendThrows = 0
  /\ delivered = <<>>
  /\ readers = {}
  /\ dispatched = <<>>
  /\ decodeThrows = 0
  /\ logToConsole = FALSE
  /\ maximumConsoleLogLevel = LogLevel.Off
  /\ maximumLogLevel = LogLevel.Off
  /\ consoleLines = <<>>
  /\ logEvents = <<>>
  /\ logCalls = <<>>
  /\ returned = NoValue
  /\ errorArgs = <<>>

\* ----------------------------------------------------------------- helpers
\* resolve/reject of a promise: only a pending promise changes.
Settle(p, v) == IF p = "pending" THEN v ELSE p

\* WebSocket.close(): an open (or connecting) socket starts closing.
WsClose(st, c) ==
  [st EXCEPT ![c] = IF @ \in {"connecting", "open"} THEN "closing" ELSE @]

\* One more Disconnect invocation in the session count.
CountCall(n) == IF n < MaxDisconnects THEN n + 1 ELSE n

\* ParseMessages(msgs): the consumer hook; recorded with the frame it came
\* from, Connected and the channel's handshake state at the time of the call.
ParseMessages(idx, c, msgs) ==
  dispatched' = Append(dispatched,
                  [idx |-> idx, chan |-> c, msgs |-> msgs,
                   connected |-> Connected, hs |-> hs[c]])

\* Decode and dispatch passing on only the first decoded message.
DecodeAndDispatchFirstOnly(idx, c, text) ==
  LET d == FromJSON(text)
  IN  IF d.ok
      THEN ParseMessages(idx, c, SubSeq(d.msgs, 1, 1)) /\ UNCHANGED decodeThrows
      ELSE decodeThrows' = decodeThrows + 1 /\ UNCHANGED dispatched

\* Decode and dispatch catching a decode failure and dispatching no messages.
DecodeAndDispatchSwallow(idx, c, text) ==
  LET d == FromJSON(text)
  IN  IF d.ok
      THEN ParseMessages(idx, c, d.msgs) /\ UNCHANGED decodeThrows
      ELSE ParseMessages(idx, c, <<>>) /\ UNCHANGED decodeThrows

\* FromJSON followed by ParseMessages; a decode failure is thrown before the hook.
DecodeAndDispatch(idx, c, text) ==
  LET d == FromJSON(text)
  IN  IF d.ok
      THEN ParseMessages(idx, c, d.msgs) /\ UNCHANGED decodeThrows
      ELSE decodeThrows' = decodeThrows + 1 /\ UNCHANGED dispatched

\* ----------------------------------------------------------------- actions
\* Connect storing the socket at once (this._ws = new WebSocket(aUrl)).
ConnectEager(c) ==
  /\ chState[c] = "none"
  /\ \A d \in Channels : d < c => chState[d] # "none"
  /\ chState' = [chState EXCEPT ![c] = "connecting"]
  /\ closeListeners' = [closeListeners EXCEPT ![c] = {"conErrorCallback"}]
  /\ promise' = [promise EXCEPT ![c] = "pending"]
  /\ ws' = c
  /\ UNCHANGED logVars
  /\ UNCHANGED <<messageListener, rejReason, hs, hsCalls, sessionVars,
                 sendVars, inboundVars>>

\* Connect registering Disconnect as the close observer of the open phase.
ConnectTeardownObserver(c) ==
  /\ chState[c] = "none"
  /\ \A d \in Channels : d < c => chState[d] # "none"
  /\ chState' = [chState EXCEPT ![c] = "connecting"]
  /\ closeListeners' = [closeListeners EXCEPT ![c] = {"Disconnect"}]
  /\ promise' = [promise EXCEPT ![c] = "pending"]
  /\ UNCHANGED logVars
  /\ UNCHANGED <<ws, messageListener, rejReason, hs, hsCalls, sessionVars,
                 sendVars, inboundVars>>

\* Connect(aUrl), lines 29-34 and 46-47: create the socket and the promise,
\* register the open handler and the provisional close observer.
Connect(c) ==
  /\ chState[c] = "none"
  /\ \A d \in Channels : d < c => chState[d] # "none"
  /\ chState' = [chState EXCEPT ![c] = "connecting"]
  /\ closeListeners' = [closeListeners EXCEPT ![c] = {"conErrorCallback"}]
  /\ promise' = [promise EXCEPT ![c] = "pending"]
  /\ UNCHANGED logVars
  /\ UNCHANGED <<ws, messageListener, rejReason, hs, hsCalls, sessionVars,
                 sendVars, inboundVars>>

\* The open handler up to its await, lines 35-40.
OnOpen(c) ==
  /\ chState[c] = "connecting"
  /\ chState' = [chState EXCEPT ![c] = "open"]
  /\ ws' = c
  /\ messageListener' = [messageListener EXCEPT ![c] = TRUE]
  /\ closeListeners' =
       [closeListeners EXCEPT ![c] = (@ \ {"conErrorCallback"}) \cup {"Disconnect"}]
  /\ hs' = [hs EXCEPT ![c] = "running"]
  /\ hsCalls' = [hsCalls EXCEPT ![c] = @ + 1]
  /\ disconnectCalls' = 0
  /\ shutdownCalls' = 0
  /\ closeEmits' = 0
  /\ teardown' = <<>>
  /\ UNCHANGED logVars
  /\ UNCHANGED <<promise, rejReason, sendVars, inboundVars>>

\* The open handler calling res() whatever InitializeConnection reported.
HandshakeDoneUnchecked(c, r) ==
  /\ hs[c] = "running"
  /\ hs' = [hs EXCEPT ![c] = IF r THEN "true" ELSE "false"]
  /\ promise' = [promise EXCEPT ![c] = Settle(@, "resolved")]
  /\ UNCHANGED logVars
  /\ UNCHANGED <<ws, chanVars, rejReason, hsCalls, sessionVars, sendVars,
                 inboundVars>>

\* The open handler after its await, lines 40-44: InitializeConnection
\* reported r.
HandshakeDone(c, r) ==
  /\ hs[c] = "running"
  /\ hs' = [hs EXCEPT ![c] = IF r THEN "true" ELSE "false"]
  /\ promise' = [promise EXCEPT ![c] = Settle(@, IF r THEN "resolved" ELSE "rejected")]
  /\ rejReason' = [rejReason EXCEPT
                     ![c] = IF ~r /\ promise[c] = "pending" THEN "undefined" ELSE @]
  /\ UNCHANGED logVars
  /\ UNCHANGED <<ws, chanVars, hsCalls, sessionVars, sendVars, inboundVars>>

\* The statements of Disconnect after its guard.  Each takes the Transport
\* as the statement before it left it, t = [ws, st, steps, shutdowns, emits],
\* and notes itself in steps with Connected as it finds it.
Noted(t, op) == Append(t.steps, [op |-> op, connected |-> t.ws # NoChannel])

\* this.ShutdownConnection(), line 54
CallShutdownConnection(t) ==
  [t EXCEPT !.steps = Noted(t, "ShutdownConnection"), !.shutdowns = @ + 1]

\* this._ws!.close(), line 55
CloseSocket(t) ==
  [t EXCEPT !.steps = Noted(t, "ws.close"), !.st = WsClose(@, t.ws)]

\* this._ws = undefined, line 56
ClearSocket(t) ==
  [t EXCEPT !.steps = Noted(t, "clear"), !.ws = NoChannel]

\* this.emit("close"), line 57
EmitClose(t) ==
  [t EXCEPT !.steps = Noted(t, "emit close"), !.emits = @ + 1]

\* Lines 54-57 with the close notification emitted first.
TeardownEmitFirst(t) ==
  ClearSocket(CloseSocket(CallShutdownConnection(EmitClose(t))))

\* Lines 54-57 in their order.
Teardown(t) ==
  EmitClose(ClearSocket(CloseSocket(CallShutdownConnection(t))))

\* The Transport as Disconnect finds it, the channels being in states st.
Found(st) ==
  [ws |-> ws, st |-> st, steps |-> <<>>,
   shutdowns |-> shutdownCalls, emits |-> closeEmits]

\* Disconnect without its Connected guard: the hook runs again, then
\* this._ws.close() fails on undefined.
DisconnectFromUnguarded(st) ==
  /\ disconnectCalls' = CountCall(disconnectCalls)
  /\ IF ~Connected
     THEN /\ chState' = st
          /\ shutdownCalls' = shutdownCalls + 1
          /\ UNCHANGED <<ws, closeEmits, teardown>>
     ELSE LET t == Teardown(Found(st))
          IN  /\ ws' = t.ws
              /\ chState' = t.st
              /\ shutdownCalls' = t.shutdowns
              /\ closeEmits' = t.emits
              /\ teardown' = t.steps

\* Disconnect emitting close also when it finds the Transport not connected.
DisconnectFromAlwaysEmit(st) ==
  /\ disconnectCalls' = CountCall(disconnectCalls)
  /\ IF ~Connected
     THEN /\ chState' = st
          /\ closeEmits' = closeEmits + 1
          /\ UNCHANGED <<ws, shutdownCalls, teardown>>
     ELSE LET t == Teardown(Found(st))
          IN  /\ ws' = t.ws
              /\ chState' = t.st
              /\ shutdownCalls' = t.shutdowns
              /\ closeEmits' = t.emits
              /\ teardown' = t.steps

\* Disconnect, lines 50-58, started with the channels in states st.
DisconnectFrom(st) ==
  /\ disconnectCalls' = CountCall(disconnectCalls)
  /\ IF ~Connected
     THEN /\ chState' = st
          /\ UNCHANGED <<ws, shutdownCalls, closeEmits, teardown>>
     ELSE LET t == Teardown(Found(st))
          IN  /\ ws' = t.ws
              /\ chState' = t.st
              /\ shutdownCalls' = t.shutdowns
              /\ closeEmits' = t.emits
              /\ teardown' = t.steps

\* Disconnect() called by the owner of the Transport.
Disconnect ==
  /\ DisconnectFrom(chState)
  /\ UNCHANGED logVars
  /\ UNCHANGED <<closeListeners, messageListener, connectVars, sendVars,
                 inboundVars>>

\* The close event of channel c: its readyState is CLOSED and the attached
\* close listeners run (conErrorCallback line 34, Disconnect line 39).
OnClose(c) ==
  /\ chState[c] \in {"connecting", "open", "closing"}
  /\ IF "conErrorCallback" \in closeListeners[c]
     THEN /\ promise' = [promise EXCEPT ![c] = Settle(@, "rejected")]
          /\ rejReason' = [rejReason EXCEPT
                             ![c] = IF promise[c] = "pending" THEN "closeEvent" ELSE @]
     ELSE UNCHANGED <<promise, rejReason>>
  /\ IF "Disconnect" \in closeListeners[c]
     THEN DisconnectFrom([chState EXCEPT ![c] = "closed"])
     ELSE /\ chState' = [chState EXCEPT ![c] = "closed"]
          /\ UNCHANGED <<ws, sessionVars>>
  /\ UNCHANGED logVars
  /\ UNCHANGED <<closeListeners, messageListener, hs, hsCalls, sendVars,
                 inboundVars>>

\* Send without its Connected guard: the write is attempted on this._ws.
SendUnguarded(m) ==
  /\ Len(sent) + sendThrows < MaxSends
  /\ sent' = Append(sent,
                [chan |-> ws, msg |-> m,
                 frame |-> <<"[">> \o MsgToJSON(m) \o <<"]">>])
  /\ UNCHANGED logVars
  /\ UNCHANGED <<ws, chanVars, connectVars, sessionVars, sendThrows, inboundVars>>

\* Send writing the encoded message without the array brackets.
SendBare(m) ==
  /\ Len(sent) + sendThrows < MaxSends
  /\ IF ~Connected
     THEN sendThrows' = sendThrows + 1 /\ UNCHANGED sent
     ELSE /\ sent' = Append(sent, [chan |-> ws, msg |-> m, frame |-> MsgToJSON(m)])
          /\ UNCHANGED sendThrows
  /\ UNCHANGED logVars
  /\ UNCHANGED <<ws, chanVars, connectVars, sessionVars, inboundVars>>

\* Send(aMsg), lines 60-65.
Send(m) ==
  /\ Len(sent) + sendThrows < MaxSends
  /\ IF ~Connected
     THEN sendThrows' = sendThrows + 1 /\ UNCHANGED sent
     ELSE /\ sent' = Append(sent,
                       [chan |-> ws, msg |-> m,
                        frame |-> <<"[">> \o MsgToJSON(m) \o <<"]">>])
          /\ UNCHANGED sendThrows
  /\ UNCHANGED logVars
  /\ UNCHANGED <<ws, chanVars, connectVars, sessionVars, inboundVars>>

\* ParseIncomingMessage sending text frames through a FileReader as well.
OnMessageAllAsync(c, kind, text) ==
  /\ chState[c] = "open"
  /\ Len(delivered) < MaxFrames
  /\ delivered' = Append(delivered, [chan |-> c, kind |-> kind, text |-> text])
  /\ LET idx == Len(delivered) + 1
     IN  IF ~messageListener[c]
         THEN UNCHANGED <<readers, dispatched, decodeThrows>>
         ELSE /\ readers' = readers \cup {[idx |-> idx, chan |-> c, text |-> text]}
              /\ UNCHANGED <<dispatched, decodeThrows>>
  /\ UNCHANGED logVars
  /\ UNCHANGED <<ws, chanVars, connectVars, sessionVars, sendVars>>

\* A message event on channel c (delivered only while the socket is open):
\* ParseIncomingMessage, lines 18-27.
OnMessage(c, kind, text) ==
  /\ chState[c] = "open"
  /\ Len(delivered) < MaxFrames
  /\ delivered' = Append(delivered, [chan |-> c, kind |-> kind, text |-> text])
  /\ LET idx == Len(delivered) + 1
     IN  IF ~messageListener[c]
         THEN UNCHANGED <<readers, dispatched, decodeThrows>>
         ELSE IF kind = "string"
         THEN DecodeAndDispatch(idx, c, text) /\ UNCHANGED readers
         ELSE /\ readers' = readers \cup {[idx |-> idx, chan |-> c, text |-> text]}
              /\ UNCHANGED <<dispatched, decodeThrows>>
  /\ UNCHANGED logVars
  /\ UNCHANGED <<ws, chanVars, connectVars, sessionVars, sendVars>>

\* The load event of a FileReader: OnReaderLoad, lines 67-70.
OnReaderLoad(r) ==
  /\ r \in readers
  /\ readers' = readers \ {r}
  /\ DecodeAndDispatch(r.idx, r.chan, r.text)
  /\ UNCHANGED logVars
  /\ UNCHANGED <<ws, chanVars, connectVars, sessionVars, sendVars, delivered>>

\* The Transport and the channels it creates: every interleaving of Connect
\* calls, channel events, handshake results, Disconnect and Send calls.
Next ==
  \/ \E c \in Channels : Connect(c)
  \/ \E c \in Channels : OnOpen(c)
  \/ \E c \in Channels, r \in BOOLEAN : HandshakeDone(c, r)
  \/ Disconnect
  \/ \E c \in Channels : OnClose(c)
  \/ \E m \in Messages : Send(m)

Spec == Init /\ [][Next]_vars

\* One session (the first channel) with its inbound frames.
NextInbound ==
  \/ Connect(1)
  \/ OnOpen(1)
  \/ \E r \in BOOLEAN : HandshakeDone(1, r)
  \/ Disconnect
  \/ OnClose(1)
  \/ \E kind \in FrameKinds, text \in FrameTexts : OnMessage(1, kind, text)
  \/ \E r \in readers : OnReaderLoad(r)

SpecInbound == Init /\ [][NextInbound]_vars

\* ------------------------------------------------------------------ logger
\* new LogMessage(logMessage, logLevel), Logging.ts lines 35-44.
LogMessage(aMsg, aLevel, ts) ==
  [timestamp |-> ts, logMessage |-> aMsg, logLevel |-> aLevel]

\* LogMessage.FormattedMessage, lines 70-72.
FormattedMessage(msg) ==
  <<LogLevelName(msg.logLevel), " : ", msg.timestamp, " : ", msg.logMessage>>

\* AddLogMessage with || in its early return.
AddLogMessageEitherRejects(aMsg, aLevel, ts) ==
  /\ logCalls' = Append(logCalls, [level |-> aLevel, text |-> aMsg])
  /\ IF aLevel > maximumLogLevel \/ aLevel > maximumConsoleLogLevel
     THEN UNCHANGED <<consoleLines, logEvents>>
     ELSE LET msg == LogMessage(aMsg, aLevel, ts)
          IN  /\ consoleLines' =
                   IF logToConsole /\ aLevel <= maximumConsoleLogLevel
                   THEN Append(consoleLines, FormattedMessage(msg))
                   ELSE consoleLines
              /\ logEvents' =
                   IF aLevel <= maximumLogLevel
                   THEN Append(logEvents, msg)
                   ELSE logEvents

\* AddLogMessage treating a threshold of Off as "no limit".
AddLogMessageOffUnlimited(aMsg, aLevel, ts) ==
  /\ logCalls' = Append(logCalls, [level |-> aLevel, text |-> aMsg])
  /\ LET msg == LogMessage(aMsg, aLevel, ts)
         admits(max) == max = LogLevel.Off \/ aLevel <= max
     IN  /\ consoleLines' =
              IF logToConsole /\ admits(maximumConsoleLogLevel)
              THEN Append(consoleLines, FormattedMessage(msg))
              ELSE consoleLines
         /\ logEvents' =
              IF admits(maximumLogLevel)
              THEN Append(logEvents, msg)
              ELSE logEvents

\* AddLogMessage(aMsg, aLevel), lines 200-216; ts is the time of the call.
AddLogMessage(aMsg, aLevel, ts) ==
  /\ logCalls' = Append(logCalls, [level |-> aLevel, text |-> aMsg])
  /\ IF aLevel > maximumLogLevel /\ aLevel > maximumConsoleLogLevel
     THEN UNCHANGED <<consoleLines, logEvents>>
     ELSE LET msg == LogMessage(aMsg, aLevel, ts)
          IN  /\ consoleLines' =
                   IF logToConsole /\ aLevel <= maximumConsoleLogLevel
                   THEN Append(consoleLines, FormattedMessage(msg))
                   ELSE consoleLines
              /\ logEvents' =
                   IF aLevel <= maximumLogLevel
                   THEN Append(logEvents, msg)
                   ELSE logEvents

\* A log call that leaves the configuration and the Transport alone.
LogCall(aMsg, aLevel, ts) ==
  /\ Len(logCalls) < MaxLogCalls
  /\ AddLogMessage(aMsg, aLevel, ts)
  /\ UNCHANGED <<configVars, transportVars>>

\* Fatal, Error, Warn, Info, Debug, Trace: lines 157-194.
Fatal(aMsg, ts) == LogCall(aMsg, LogLevel.Fatal, ts) /\ UNCHANGED <<returned, errorArgs>>
Error(aMsg, ts) == LogCall(aMsg, LogLevel.Error, ts) /\ UNCHANGED <<returned, errorArgs>>
Warn(aMsg, ts) == LogCall(aMsg, LogLevel.Warn, ts) /\ UNCHANGED <<returned, errorArgs>>
Info(aMsg, ts) == LogCall(aMsg, LogLevel.Info, ts) /\ UNCHANGED <<returned, errorArgs>>
Debug(aMsg, ts) == LogCall(aMsg, LogLevel.Debug, ts) /\ UNCHANGED <<returned, errorArgs>>
Trace(aMsg, ts) == LogCall(aMsg, LogLevel.Trace, ts) /\ UNCHANGED <<returned, errorArgs>>

\* new Messages.Error(aMsg, aErrorClass, aMsgId)
ErrorMessage(aMsg, aErrorClass, aMsgId) ==
  [type |-> "Error", ErrorMessage |-> aMsg, ErrorCode |-> aErrorClass,
   Id |-> aMsgId]

\* LogAndError that only builds the error message.
LogAndErrorSilent(aMsg, aErrorClass, aMsgId, ts) ==
  /\ Len(logCalls) < MaxLogCalls
  /\ returned' = ErrorMessage(aMsg, aErrorClass, aMsgId)
  /\ errorArgs' = <<aMsg, aErrorClass, aMsgId>>
  /\ UNCHANGED <<configVars, consoleLines, logEvents, logCalls, transportVars>>

\* LogAndError(aMsg, aErrorClass, aMsgId), lines 149-152.
LogAndError(aMsg, aErrorClass, aMsgId, ts) ==
  /\ LogCall(aMsg, LogLevel.Error, ts)
  /\ returned' = ErrorMessage(aMsg, aErrorClass, aMsgId)
  /\ errorArgs' = <<aMsg, aErrorClass, aMsgId>>

\* The setters, lines 119-121, 133-135 and 140-142.
SetMaximumConsoleLogLevel(aLogLevel) ==
  /\ maximumConsoleLogLevel' = aLogLevel
  /\ UNCHANGED <<logToConsole, maximumLogLevel, outputVars, transportVars>>

SetMaximumLogLevel(aLogLevel) ==
  /\ maximumLogLevel' = aLogLevel
  /\ UNCHANGED <<logToConsole, maximumConsoleLogLevel, outputVars, transportVars>>

SetConsoleLogging(aShouldLog) ==
  /\ logToConsole' = aShouldLog
  /\ UNCHANGED <<maximumConsoleLogLevel, maximumLogLevel, outputVars, transportVars>>

\* The logger: every sequence of configuration changes and log calls.
NextLog ==
  \/ \E l \in LogLevels : SetMaximumConsoleLogLevel(l)
  \/ \E l \in LogLevels : SetMaximumLogLevel(l)
  \/ \E b \in BOOLEAN : SetConsoleLogging(b)
  \/ \E t \in Texts, ts \in Timestamps : Fatal(t, ts)
  \/ \E t \in Texts, ts \in Timestamps : Error(t, ts)
  \/ \E t \in Texts, ts \in Timestamps : Warn(t, ts)
  \/ \E t \in Texts, ts \in Timestamps : Info(t, ts)
  \/ \E t \in Texts, ts \in Timestamps : Debug(t, ts)
  \/ \E t \in Texts, ts \in Timestamps : Trace(t, ts)
  \/ \E t \in Texts, e \in ErrorClasses, i \in MsgIds, ts \in Timestamps :
       LogAndError(t, e, i, ts)

SpecLog == Init /\ [][NextLog]_vars

\* ------------------------------------------------------------------ claims
\* Channels other than c that can still deliver events to the Transport.
OthersQuiet(c) == \A d \in Channels \ {c} : chState[d] \in {"none", "closed"}

C2_HandshakeFailureNotConnected ==
  \A c \in Channels : hs[c] = "false" => (promise[c] = "rejected" /\ ws # c)

\* C3: on a channel whose handshake failed, an inbound frame reaches neither
\* the decoder nor a FileReader, and its close event causes no
\* ShutdownConnection call and no close notification.
C3_NoObserversAfterFailure ==
  [][\A c \in Channels : hs[c] = "false" =>
       /\ (Len(delivered') > Len(delivered) /\ delivered'[Len(delivered')].chan = c)
            => (dispatched' = dispatched /\ readers' = readers
                /\ decodeThrows' = decodeThrows)
       /\ (chState[c] # "closed" /\ chState'[c] = "closed")
            => (shutdownCalls' = shutdownCalls /\ closeEmits' = closeEmits)]_vars

\* C4: in a session (since the last open event), once Disconnect has been
\* invoked at least once, by the caller or by a close event, in any number
\* and order, ShutdownConnection has run exactly once, close has been
\* emitted exactly once and Connected is false.
SessionStarted == \E c \in Channels : hsCalls[c] > 0

C4_SingleTeardown ==
  (SessionStarted /\ disconnectCalls >= 1) =>
    (shutdownCalls = 1 /\ closeEmits = 1 /\ ~Connected)

C4_Witness ==
  /\ SessionStarted
  /\ disconnectCalls >= 2
  /\ \E c \in Channels : chState[c] = "closed" /\ hsCalls[c] > 0
  /\ shutdownCalls = 1 /\ closeEmits = 1

\* C5: a Send step taken while not connected throws, writes nothing and
\* changes nothing else.
SendStep == Len(sent') + sendThrows' > Len(sent) + sendThrows

C5_SendNotConnected ==
  [][(SendStep /\ ~Connected) =>
       /\ sendThrows' = sendThrows + 1
       /\ sent' = sent
       /\ UNCHANGED <<ws, chanVars, connectVars, sessionVars, inboundVars>>]_vars

C5_Witness == sendThrows >= 1 /\ ~Connected /\ \E c \in Channels : chState[c] = "closed"

\* C6: when the channel has closed while the handshake hook was still
\* running, the pending Connect completes as failed.
C6_EarlyCloseFailsConnect ==
  [][\A c \in Channels :
       (chState[c] = "closed" /\ hs[c] = "running"
        /\ promise[c] = "pending" /\ promise'[c] # "pending")
         => promise'[c] = "rejected"]_vars

\* C7: the close event of a channel that has not opened rejects its Connect
\* with the close event, emits no close notification, runs no teardown and
\* leaves this._ws alone (Connected stays false when no other channel is
\* live); the handshake hook is never invoked for such a channel.
C7_CloseBeforeOpen ==
  [][\A c \in Channels :
       /\ (chState[c] = "connecting" /\ chState'[c] = "closed") =>
            /\ promise'[c] = "rejected" /\ rejReason'[c] = "closeEvent"
            /\ closeEmits' = closeEmits /\ shutdownCalls' = shutdownCalls
            /\ ws' = ws /\ ws' # c
            /\ OthersQuiet(c) => ~Connected'
       /\ rejReason'[c] = "closeEvent" => (hsCalls'[c] = 0 /\ hs'[c] = "notcalled")]_vars

C7_Witness ==
  \E c \in Channels :
    /\ chState[c] = "closed" /\ promise[c] = "rejected"
    /\ rejReason[c] = "closeEvent" /\ hsCalls[c] = 0 /\ ~Connected

\* C8: at the step that completes a Connect successfully the Transport is
\* Connected.
C8_SuccessImpliesConnected ==
  [][\A c \in Channels :
       (promise[c] = "pending" /\ promise'[c] = "resolved") => ws' # NoChannel]_vars

\* C9: the handshake hook is invoked exactly at the open event of a channel,
\* once, and a Connect is resolved only for a channel that opened and whose
\* hook invocation reported success.
C9_HandshakeOncePerOpen ==
  [][\A c \in Channels :
       /\ hsCalls'[c] = hsCalls[c]
            + (IF chState[c] = "connecting" /\ chState'[c] = "open" THEN 1 ELSE 0)
       /\ hsCalls'[c] <= 1
       /\ promise'[c] = "resolved" =>
            (hsCalls'[c] = 1 /\ hs'[c] = "true"
             /\ chState'[c] \in {"open", "closing", "closed"})]_vars

C9_Witness ==
  \E c \in Channels : promise[c] = "resolved" /\ hsCalls[c] = 1 /\ hs[c] = "true"

\* C10 as stated: ParseMessages invocations follow the delivery order of
\* their frames, text and blob frames mixed.
C10_DispatchInDeliveryOrder ==
  \A i, j \in DOMAIN dispatched :
    i < j => dispatched[i].idx < dispatched[j].idx

\* C10 as amended: text frames are dispatched in the order in which the
\* channel delivered them; a blob frame is dispatched when its text has been
\* materialized, which can be after frames delivered later.
IsText(d) == delivered[d.idx].kind = "string"

C10_TextFramesInOrder ==
  \A i, j \in DOMAIN dispatched :
    (i < j /\ IsText(dispatched[i]) /\ IsText(dispatched[j]))
      => dispatched[i].idx < dispatched[j].idx

C10_Witness ==
  /\ Len(dispatched) = 2
  /\ IsText(dispatched[1]) /\ IsText(dispatched[2])
  /\ dispatched[1].idx < dispatched[2].idx

\* The message sequences of the well-formed frame texts.
GoodFrames == {<<"m1", "m2">>, <<"m2", "m1">>}
Malformed(text) == \A ms \in GoodFrames : text # EncodeFrame(ms)

\* The step delivers a frame of the given kind and text.
Delivers(kind, text) ==
  /\ Len(delivered') = Len(delivered) + 1
  /\ delivered'[Len(delivered')].kind = kind
  /\ delivered'[Len(delivered')].text = text

\* The step invokes ParseMessages once more, for frame idx with messages ms.
DispatchesOnce(idx, ms) ==
  /\ Len(dispatched') = Len(dispatched) + 1
  /\ SubSeq(dispatched', 1, Len(dispatched)) = dispatched
  /\ dispatched'[Len(dispatched')].idx = idx
  /\ dispatched'[Len(dispatched')].msgs = ms

\* C11: the message event of a text frame that encodes the messages ms
\* invokes ParseMessages exactly once, with ms in their order.
C11_TextFrameDispatchedOnce ==
  [][\A ms \in GoodFrames :
       Delivers("string", EncodeFrame(ms))
         => DispatchesOnce(Len(delivered'), ms)]_vars

C11_Witness ==
  /\ Len(delivered) = 1 /\ Len(dispatched) = 1
  /\ delivered[1].kind = "string"
  /\ delivered[1].text = <<"[", "{", "m2", "}", "{", "m1", "}", "]">>
  /\ dispatched[1].msgs = <<"m2", "m1">>

\* C12: a frame that fails to decode, on the text path or on the blob path,
\* invokes no ParseMessages, emits no close and changes nothing of the
\* connection; a well-formed frame that arrives after a decode failure is
\* dispatched once, with its messages.
C12_DecodeFailureHarmless ==
  [][/\ \A text \in FrameTexts :
          (Malformed(text) /\ Delivers("string", text)) =>
             /\ dispatched' = dispatched
             /\ UNCHANGED <<ws, chanVars, connectVars, sessionVars, sendVars>>
     /\ \A r \in readers :
          (Malformed(r.text) /\ r \notin readers') =>
             /\ dispatched' = dispatched
             /\ UNCHANGED <<ws, chanVars, connectVars, sessionVars, sendVars>>
     /\ decodeThrows > 0 =>
          /\ \A ms \in GoodFrames :
               Delivers("string", EncodeFrame(ms))
                 => DispatchesOnce(Len(delivered'), ms)
          /\ \A r \in readers, ms \in GoodFrames :
               (r.text = EncodeFrame(ms) /\ r \notin readers')
                 => DispatchesOnce(r.idx, ms)]_vars

C12_Witness ==
  /\ decodeThrows = 1 /\ Connected /\ closeEmits = 0
  /\ Len(delivered) = 2 /\ Malformed(delivered[1].text)
  /\ Len(dispatched) = 1 /\ dispatched[1].idx = 2
  /\ dispatched[1].msgs = <<"m1", "m2">>

\* ---- logger claims
\* The step is a log call; its level and text are those of the last call.
LogStep == Len(logCalls') = Len(logCalls) + 1
CallLevel == logCalls'[Len(logCalls')].level
CallText == logCalls'[Len(logCalls')].text

\* C13: a log call at level L writes a console line iff console output is
\* enabled and L <= maximumConsoleLogLevel, and emits a log event iff
\* L <= maximumLogLevel, each decided without regard to the other.
C13_IndependentThresholds ==
  [][LogStep =>
       /\ CallLevel \in LogLevel.Fatal..LogLevel.Trace
       /\ IF logToConsole /\ CallLevel <= maximumConsoleLogLevel
          THEN /\ Len(consoleLines') = Len(consoleLines) + 1
               /\ SubSeq(consoleLines', 1, Len(consoleLines)) = consoleLines
               /\ \E ts \in Timestamps :
                    consoleLines'[Len(consoleLines')] =
                      <<LogLevelName(CallLevel), " : ", ts, " : ", CallText>>
          ELSE consoleLines' = consoleLines
       /\ IF CallLevel <= maximumLogLevel
          THEN /\ Len(logEvents') = Len(logEvents) + 1
               /\ SubSeq(logEvents', 1, Len(logEvents)) = logEvents
               /\ logEvents'[Len(logEvents')].logLevel = CallLevel
               /\ logEvents'[Len(logEvents')].logMessage = CallText
          ELSE logEvents' = logEvents]_vars

C13_Witness ==
  /\ logToConsole
  /\ maximumConsoleLogLevel = LogLevel.Info
  /\ maximumLogLevel = LogLevel.Trace
  /\ Len(logCalls) = 1 /\ logCalls[1].level = LogLevel.Trace
  /\ Len(logEvents) = 1 /\ consoleLines = <<>>

\* C14: with maximumLogLevel = Off no log call emits a log event, with
\* maximumConsoleLogLevel = Off no log call writes a console line, whatever
\* the rest of the configuration; before the first log call nothing has
\* been written or emitted.
C14_OffAdmitsNothing ==
  [][/\ (LogStep /\ maximumLogLevel = LogLevel.Off) => logEvents' = logEvents
     /\ (LogStep /\ maximumConsoleLogLevel = LogLevel.Off)
          => consoleLines' = consoleLines
     /\ Len(logCalls') = 0 => (consoleLines' = <<>> /\ logEvents' = <<>>)]_vars

C14_Witness ==
  /\ maximumLogLevel = LogLevel.Off
  /\ maximumConsoleLogLevel = LogLevel.Trace /\ logToConsole
  /\ Len(logCalls) = 1 /\ Len(consoleLines) = 1 /\ logEvents = <<>>

\* C15: LogAndError(text, errorClass, id) makes exactly one log call, at
\* Error level with that text, filtered like any Error call, returns an
\* error message with exactly that text, errorClass and id, and changes no
\* configuration.
C15_LogAndError ==
  [][errorArgs' # errorArgs =>
       /\ LogStep
       /\ CallLevel = LogLevel.Error /\ CallText = errorArgs'[1]
       /\ Len(logEvents') - Len(logEvents)
            = (IF LogLevel.Error <= maximumLogLevel THEN 1 ELSE 0)
       /\ Len(consoleLines') - Len(consoleLines)
            = (IF logToConsole /\ LogLevel.Error <= maximumConsoleLogLevel
               THEN 1 ELSE 0)
       /\ returned' = [type |-> "Error", ErrorMessage |-> errorArgs'[1],
                       ErrorCode |-> errorArgs'[2], Id |-> errorArgs'[3]]
       /\ UNCHANGED configVars]_vars

C15_Witness ==
  /\ errorArgs = <<"t2", "ERROR_MSG", 1>>
  /\ returned = [type |-> "Error", ErrorMessage |-> "t2",
                 ErrorCode |-> "ERROR_MSG", Id |-> 1]
  /\ Len(logCalls) = 1 /\ logEvents = <<>> /\ consoleLines = <<>>

\* ---- transport claims, continued
\* C16: every ParseMessages invocation happens while the Transport is
\* Connected.
C16_DispatchOnlyWhileConnected ==
  \A i \in DOMAIN dispatched : dispatched[i].connected

\* C17: no second channel is live (connecting or open) alongside another,
\* and the close event of a channel the Transport does not hold leaves the
\* held channel in place.
LiveChannels == {c \in Channels : chState[c] \in {"connecting", "open"}}

C17_OneLiveChannel ==
  [][/\ Cardinality(LiveChannels') <= 1
     /\ \A c \in Channels :
          (chState[c] # "closed" /\ chState'[c] = "closed"
           /\ Connected /\ ws # c) => ws' = ws]_vars

\* C18: a teardown runs ShutdownConnection, then closes the channel, then
\* clears this._ws, then emits close; Connected is true up to the clearing
\* and false when close is emitted.
TeardownOrder ==
  << [op |-> "ShutdownConnection", connected |-> TRUE],
     [op |-> "ws.close", connected |-> TRUE],
     [op |-> "clear", connected |-> TRUE],
     [op |-> "emit close", connected |-> FALSE] >>

C18_TeardownOrder ==
  /\ teardown \in {<<>>, TeardownOrder}
  /\ teardown = TeardownOrder <=> shutdownCalls = 1
  /\ teardown = TeardownOrder <=> closeEmits = 1

C18_Witness ==
  /\ teardown = TeardownOrder /\ ~Connected
  /\ \E c \in Channels : chState[c] = "closing"

\* C19: a Disconnect invocation that finds the Transport not connected runs
\* no ShutdownConnection, closes no channel, emits no close and leaves
\* this._ws alone; called by the owner it changes nothing at all.
C19_DisconnectNotConnected ==
  [][(~Connected /\ disconnectCalls' = disconnectCalls + 1) =>
       /\ ws' = ws
       /\ shutdownCalls' = shutdownCalls /\ closeEmits' = closeEmits
       /\ teardown' = teardown
       /\ \A c \in Channels : chState'[c] = "closing" => chState[c] = "closing"
       /\ chState' = chState =>
            UNCHANGED <<chanVars, connectVars, sendVars, inboundVars>>]_vars

C19_Witness ==
  /\ ~SessionStarted /\ disconnectCalls >= 1
  /\ ~Connected /\ shutdownCalls = 0 /\ closeEmits = 0

\* C20: a Send step taken while connected appends exactly one write, on the
\* held channel, of "[" + encoded message + "]", after the writes of the
\* earlier Send calls, and changes nothing else.
C20_SendConnected ==
  [][(SendStep /\ Connected) =>
       /\ Len(sent') = Len(sent) + 1
       /\ SubSeq(sent', 1, Len(sent)) = sent
       /\ sent'[Len(sent')].chan = ws
       /\ sent'[Len(sent')].frame = <<"[", "{", sent'[Len(sent')].msg, "}", "]">>
       /\ sendThrows' = sendThrows
       /\ UNCHANGED <<ws, chanVars, connectVars, sessionVars, inboundVars>>]_vars

C20_Witness ==
  /\ Len(sent) = 2 /\ Connected
  /\ sent[1].msg = "m2" /\ sent[2].msg = "m1"
  /\ sent[1].chan = ws /\ sent[2].chan = ws
  /\ sent[2].frame = <<"[", "{", "m1", "}", "]">>

====
